---- MODULE Spec2Model ----
(***************************************************************************)
(* CellChunkAlloc (pdsl_core/src/storage/alloc/cc_alloc.rs): the storage   *)
(* allocator that hands out single cells and chunks of 2^32 cells.         *)
(*                                                                         *)
(* Keys are modelled as integers.  The 32-bit index width is scaled down:  *)
(* U32_MAX stands for u32::max_value(), CHUNK for 1 << 32 and U64_MAX for  *)
(* u64::max_value(), so that U64_MAX + 1 = CHUNK * CHUNK as in the code.   *)
(* `x >> 32` is `x \div CHUNK` and `as u32` is `% CHUNK`.                  *)
(***************************************************************************)
EXTENDS Integers, Sequences, FiniteSets

VARIABLES
    cells,             \* self.cells: Stash<()>
    chunks,            \* self.chunks: Stash<()>
    cells_off,         \* self.cells_off
    chunks_off,        \* self.chunks_off
    debug_assertions,  \* whether debug_assert! is compiled in (the build)
    hist,              \* the calls that returned, oldest first
    last,              \* the most recent call, returned or panicked
    prev               \* the call before it

vars == <<cells, chunks, cells_off, chunks_off, debug_assertions, hist, last, prev>>

\* ------------------------------------------------------------- bounds

\* Stand-in for u32::max_value(): indices are 0..U32_MAX.
U32_MAX == 2

\* At most this many calls return in one run.
MaxOps == 5

CHUNK == U32_MAX + 1

U64_MAX == CHUNK * CHUNK - 1

\* Request sizes tried by alloc.
Sizes == {0, 1, 4}

\* Keys the bootstrap allocator may hand out first.
BootstrapKeys == {100}

\* Keys the bootstrap allocator may skip between the two reserved spans.
Gaps == {0, 1, 2}

\* ------------------------------------------------------------ helpers

Range(s) == {s[i] : i \in DOMAIN s}

Front(s) == SubSeq(s, 1, Len(s) - 1)

\* ---------------------------------------------------------------- Key

\* KeyDiff::try_to_u32: the difference if it fits 32 bits.  A negative
\* difference wraps to a huge 256-bit value and never fits.
try_to_u32(diff) == [ok |-> diff >= 0 /\ diff <= U32_MAX, val |-> diff]

\* KeyDiff::try_to_u64: the difference if it fits 64 bits.
try_to_u64(diff) == [ok |-> diff >= 0 /\ diff <= U64_MAX, val |-> diff]

\* -------------------------------------------------------------- Stash

\* Stash::new_using_alloc: no index minted, none vacant.
StashNew == [free |-> <<>>, next |-> 0]

StashOccupied(s) == (0 .. s.next - 1) \ Range(s.free)

\* Stash::put: the most recently freed index if there is one, else a
\* fresh one; none when the 32-bit index space is used up.
StashPut(s) ==
    IF s.free # <<>>
    THEN [ok |-> TRUE, index |-> Head(s.free),
          stash |-> [s EXCEPT !.free = Tail(@)]]
    ELSE IF s.next <= U32_MAX
    THEN [ok |-> TRUE, index |-> s.next,
          stash |-> [s EXCEPT !.next = @ + 1]]
    ELSE [ok |-> FALSE, index |-> s.next, stash |-> s]

\* Stash::take: Some(()) and the index is vacant afterwards, or None.
StashTake(s, index) ==
    IF index \in StashOccupied(s)
    THEN [some |-> TRUE, stash |-> [s EXCEPT !.free = <<index>> \o @]]
    ELSE [some |-> FALSE, stash |-> s]

\* ----------------------------------------------------- CellChunkAlloc

cells_offset_key == cells_off

chunks_offset_key == chunks_off

cell_index_to_key(index) == cells_offset_key + index

\* Mutant: the difference is taken from the chunks offset.
key_to_cell_index_chunks_off(key) ==
    LET diff == key - chunks_offset_key
    IN  try_to_u32(diff)

\* Mutant: the difference is cast to 32 bits without a check.
key_to_cell_index_truncating(key) ==
    LET diff == key - cells_offset_key
    IN  [ok |-> TRUE, val |-> diff % CHUNK]

key_to_cell_index(key) ==
    LET diff == key - cells_offset_key
    IN  try_to_u32(diff)

\* Mutant: the chunk offset is added to the cells offset.
chunk_index_to_key_cells_off(index) ==
    LET chunk_offset == CHUNK * index
    IN  cells_offset_key + chunk_offset

chunk_index_to_key(index) ==
    LET chunk_offset == CHUNK * index
    IN  chunks_offset_key + chunk_offset

key_to_chunk_index(key) ==
    LET diff == key - cells_offset_key
        index == try_to_u64(diff)
    IN  [ok |-> index.ok, val |-> (index.val \div CHUNK) % CHUNK]

\* What a call leaves behind: the two stashes, and what it returned.
Panic(kind, out) ==
    [cells |-> cells, chunks |-> chunks, key |-> 0, index |-> 0,
     kind |-> kind, out |-> out]

alloc_cell ==
    LET p == StashPut(cells)
    IN  IF ~p.ok THEN Panic("cell", "AddressSpaceExhausted")
        ELSE [cells |-> p.stash, chunks |-> chunks,
              key |-> cell_index_to_key(p.index), index |-> p.index,
              kind |-> "cell", out |-> "ok"]

alloc_chunk ==
    LET p == StashPut(chunks)
    IN  IF ~p.ok THEN Panic("chunk", "AddressSpaceExhausted")
        ELSE [cells |-> cells, chunks |-> p.stash,
              key |-> chunk_index_to_key(p.index), index |-> p.index,
              kind |-> "chunk", out |-> "ok"]

\* Mutant: the entry is vacated before its occupancy is looked at.
dealloc_cell_vacate_first(key) ==
    LET index == key_to_cell_index(key)
    IN  IF ~index.ok THEN Panic("cell", "IndexOverflow")
        ELSE LET t == StashTake(cells, index.val)
                 vacated == [cells EXCEPT !.free = <<index.val>> \o @]
             IN  IF ~t.some
                 THEN [Panic("cell", "DoubleFreeOrUnknownKey")
                          EXCEPT !.cells = vacated]
                 ELSE [cells |-> t.stash, chunks |-> chunks,
                       key |-> key, index |-> index.val,
                       kind |-> "cell", out |-> "ok"]

dealloc_cell(key) ==
    LET index == key_to_cell_index(key)
    IN  IF ~index.ok THEN Panic("cell", "IndexOverflow")
        ELSE LET t == StashTake(cells, index.val)
             IN  IF ~t.some THEN Panic("cell", "DoubleFreeOrUnknownKey")
                 ELSE [cells |-> t.stash, chunks |-> chunks,
                       key |-> key, index |-> index.val,
                       kind |-> "cell", out |-> "ok"]

dealloc_chunk(key) ==
    LET index == key_to_chunk_index(key)
    IN  IF ~index.ok THEN Panic("chunk", "IndexOverflow")
        ELSE LET t == StashTake(chunks, index.val)
             IN  IF ~t.some THEN Panic("chunk", "DoubleFreeOrUnknownKey")
                 ELSE [cells |-> cells, chunks |-> t.stash,
                       key |-> key, index |-> index.val,
                       kind |-> "chunk", out |-> "ok"]

\* Mutant: sizes up to 2 are served as cells.
alloc_cell_up_to_two(size) ==
    IF size = 0 /\ debug_assertions THEN Panic("none", "ZeroSizeRequest")
    ELSE IF size <= 2 THEN alloc_cell
    ELSE alloc_chunk

\* Allocator::alloc.  debug_assert!(size != 0) panics in a debug build
\* and is compiled out of a release build.
alloc(size) ==
    IF size = 0 /\ debug_assertions THEN Panic("none", "ZeroSizeRequest")
    ELSE IF size <= 1 THEN alloc_cell
    ELSE alloc_chunk

\* Mutant: no assertion on the key.
dealloc_unchecked(key) ==
    IF key < chunks_offset_key THEN dealloc_cell(key)
    ELSE dealloc_chunk(key)

\* Allocator::dealloc.
dealloc(key) ==
    IF ~(key >= cells_offset_key) THEN Panic("none", "KeyOutOfRange")
    ELSE IF key < chunks_offset_key THEN dealloc_cell(key)
    ELSE dealloc_chunk(key)

\* ------------------------------------------------------------ the run

NoCall == [op |-> "none", arg |-> 0, key |-> 0, index |-> 0,
           kind |-> "none", out |-> "ok"]

Call(op, arg, r) ==
    [op |-> op, arg |-> arg, key |-> r.key, index |-> r.index,
     kind |-> r.kind, out |-> r.out]

\* A call that returns is appended to hist; a call that panics aborts the
\* invocation and is seen in last only.
Record(op, arg, r) ==
    /\ cells' = r.cells
    /\ chunks' = r.chunks
    /\ last' = Call(op, arg, r)
    /\ prev' = last
    /\ hist' = IF r.out = "ok" THEN Append(hist, Call(op, arg, r)) ELSE hist
    /\ UNCHANGED <<cells_off, chunks_off, debug_assertions>>

\* The keys alloc has returned so far.
Returned(h) == {h[n].key : n \in {m \in DOMAIN h : h[m].op = "alloc"}}

\* Keys tried by dealloc: every key returned so far, the lowest key and
\* the key just below the cells offset, the first key past the 32-bit cell
\* range and a key inside the first chunk.
DeallocKeys ==
    Returned(hist)
        \cup {0, cells_off - 1, cells_off + CHUNK, chunks_off + 1}

\* Mutant: chunks_off is reserved before cells_off.
InitChunksFirst ==
    /\ cells = StashNew
    /\ chunks = StashNew
    /\ chunks_off \in BootstrapKeys
    /\ \E gap \in Gaps : cells_off = chunks_off + U32_MAX + gap
    /\ debug_assertions \in BOOLEAN
    /\ hist = <<>>
    /\ last = NoCall
    /\ prev = NoCall

\* new_using_alloc: two empty stashes and two offsets, each reserved from
\* the bootstrap allocator with alloc(u32::max_value()), cells_off first.
Init ==
    /\ cells = StashNew
    /\ chunks = StashNew
    /\ cells_off \in BootstrapKeys
    /\ \E gap \in Gaps : chunks_off = cells_off + U32_MAX + gap
    /\ debug_assertions \in BOOLEAN
    /\ hist = <<>>
    /\ last = NoCall
    /\ prev = NoCall

\* A call of alloc(size).  Runs are cut after MaxOps calls have returned.
Alloc(size) ==
    /\ alloc(size).out = "ok" => Len(hist) < MaxOps
    /\ Record("alloc", size, alloc(size))

\* A call of dealloc(key).
Dealloc(key) ==
    /\ dealloc(key).out = "ok" => Len(hist) < MaxOps
    /\ Record("dealloc", key, dealloc(key))

Next ==
    \/ \E size \in Sizes : Alloc(size)
    \/ \E key \in DeallocKeys : Dealloc(key)

Spec == Init /\ [][Next]_vars

\* ------------------------------------------- the index <-> key functions

\* Offsets the conversions are tried with: every cells_off < chunks_off
\* up to two chunks apart.
ArithKeys == {0, 1, 100}

InitArith ==
    /\ cells = StashNew
    /\ chunks = StashNew
    /\ cells_off \in ArithKeys
    /\ chunks_off \in (cells_off + 1) .. (cells_off + 2 * CHUNK + 1)
    /\ debug_assertions \in BOOLEAN
    /\ hist = <<>>
    /\ last = NoCall
    /\ prev = NoCall

\* A conversion applied to `arg`; `index` and `key` are its two sides.
Applied(op, arg, key, index, kind, out) ==
    /\ last' = [op |-> op, arg |-> arg, key |-> key, index |-> index,
                kind |-> kind, out |-> out]
    /\ prev' = last
    /\ UNCHANGED <<cells, chunks, cells_off, chunks_off, debug_assertions,
                   hist>>

CellIndexToKey(index) ==
    /\ last.op = "none"
    /\ Applied("cell_index_to_key", index, cell_index_to_key(index), index,
               "cell", "ok")

\* Applied to the key the previous step produced.
KeyToCellIndex ==
    /\ last.op = "cell_index_to_key"
    /\ LET r == key_to_cell_index(last.key)
       IN  Applied("key_to_cell_index", last.key, last.key, r.val, "cell",
                   IF r.ok THEN "ok" ELSE "IndexOverflow")

ChunkIndexToKey(index) ==
    /\ last.op = "none"
    /\ Applied("chunk_index_to_key", index, chunk_index_to_key(index), index,
               "chunk", "ok")

KeyToChunkIndex ==
    /\ last.op = "chunk_index_to_key"
    /\ LET r == key_to_chunk_index(last.key)
       IN  Applied("key_to_chunk_index", last.key, last.key, r.val, "chunk",
                   IF r.ok THEN "ok" ELSE "IndexOverflow")

NextArith ==
    \/ \E index \in 0 .. U32_MAX : CellIndexToKey(index)
    \/ KeyToCellIndex
    \/ \E index \in 0 .. U32_MAX : ChunkIndexToKey(index)
    \/ KeyToChunkIndex

SpecArith == InitArith /\ [][NextArith]_vars

\* ----------------------------------------------------------- the claims

\* C4: key_to_chunk_index is the reverse of chunk_index_to_key: for every
\* chunk index and every cells_off < chunks_off, converting the index to a
\* key and the key back yields the index.  (Violated: the way back
\* subtracts cells_off, so it is off by (chunks_off - cells_off) >> 32.)
C4_ChunkRoundTrip ==
    last.op = "key_to_chunk_index"
        => last.out = "ok" /\ last.index = prev.arg

\* C5: key_to_cell_index is the reverse of cell_index_to_key: for every
\* cell index 0..u32::MAX, converting the index to a key and the key back
\* yields the index, and the checked downcast does not fail.
C5_CellRoundTrip ==
    last.op = "key_to_cell_index"
        => last.out = "ok" /\ last.index = prev.arg

\* The largest cell index went to a key and came back.
C5_Witness ==
    /\ last.op = "key_to_cell_index"
    /\ prev.op = "cell_index_to_key"
    /\ prev.arg = U32_MAX
    /\ last.key = cells_off + U32_MAX
    /\ last.index = U32_MAX

\* The keys that are live after the calls of h: returned by alloc and not
\* passed to a dealloc that returned since.
RECURSIVE Live(_)
Live(h) ==
    IF h = <<>> THEN {}
    ELSE LET c == h[Len(h)]
         IN  IF c.op = "alloc" THEN Live(Front(h)) \cup {c.key}
             ELSE Live(Front(h)) \ {c.key}

\* The calls that had returned before the last call was made.
Before == IF last.out = "ok" /\ last.op # "none" THEN Front(hist) ELSE hist

\* The alloc that returned `key` most recently in h.
AllocOf(h, key) ==
    h[CHOOSE n \in DOMAIN h :
        /\ h[n].op = "alloc" /\ h[n].key = key
        /\ \A m \in DOMAIN h :
              h[m].op = "alloc" /\ h[m].key = key => m <= n]

\* C1: the keys returned by a sequence of alloc calls with no dealloc in
\* between are pairwise distinct.  (Violated: cell index u32::MAX and chunk
\* index 0 share a key when chunks_off = cells_off + u32::MAX.)
C1_AllocKeysDistinct ==
    \A i, j \in DOMAIN hist :
        (i < j /\ \A m \in i .. j : hist[m].op = "alloc")
            => hist[i].key # hist[j].key

\* C2: under any interleaving of alloc and dealloc, the key alloc returns
\* is not live at that time.  (Violated.)
C2_AllocKeyNotLive ==
    \A n \in DOMAIN hist :
        hist[n].op = "alloc" => hist[n].key \notin Live(SubSeq(hist, 1, n - 1))

\* C3: dealloc of a live key, cell or chunk, returns without panicking and
\* takes from the matching stash exactly the index the key was allocated
\* at; afterwards the key is not live and every other live key still is.
\* (Violated.)
C3_DeallocLiveKey ==
    (last.op = "dealloc" /\ last.arg \in Live(Before))
        => /\ last.out = "ok"
           /\ last.kind = AllocOf(Before, last.arg).kind
           /\ last.index = AllocOf(Before, last.arg).index
           /\ Live(hist) = Live(Before) \ {last.arg}

\* C6: alloc(1) returns K, dealloc(K) is called next, and the alloc(1)
\* after it returns K again.  (Violated: the cell key that equals
\* chunks_off is freed as a chunk, and its cell index stays occupied.)
C6_Recycling ==
    \A n \in DOMAIN hist :
        (/\ hist[n].op = "alloc" /\ hist[n].arg = 1
         /\ n + 1 \in DOMAIN hist
         /\ hist[n + 1].op = "dealloc" /\ hist[n + 1].arg = hist[n].key)
            => /\ (/\ n + 2 \in DOMAIN hist
                   /\ hist[n + 2].op = "alloc" /\ hist[n + 2].arg = 1)
                      => hist[n + 2].key = hist[n].key
               /\ (/\ n + 1 = Len(hist) /\ prev = hist[n + 1]
                   /\ last.op = "alloc" /\ last.arg = 1)
                      => last.out = "ok"

\* The scenario of C7: the calls, and the keys they are to return.
C7Calls ==
    << [op |-> "alloc", arg |-> 1], [op |-> "alloc", arg |-> 1],
       [op |-> "dealloc", arg |-> 100], [op |-> "alloc", arg |-> 1],
       [op |-> "alloc", arg |-> 4] >>

C7Keys == <<100, 101, 100, 100, 100 + CHUNK>>

C7Offsets == cells_off = 100 /\ chunks_off = 100 + CHUNK

\* The first n calls that returned are the first n calls of the scenario.
C7Follows(n) ==
    /\ n <= Len(hist)
    /\ \A m \in 1 .. n :
          hist[m].op = C7Calls[m].op /\ hist[m].arg = C7Calls[m].arg

\* C7: with cells_off = 100 and chunks_off = 100 + 2^32, alloc(1), alloc(1),
\* dealloc(100), alloc(1), alloc(4) on a fresh allocator return 100, 101,
\* (cell index 0 freed), 100 and 100 + 2^32 (chunk index 0), none panicking.
C7_RangeClassification ==
    C7Offsets =>
        \A n \in DOMAIN C7Calls :
            /\ C7Follows(n) =>
                  /\ hist[n].key = C7Keys[n]
                  /\ hist[n].index = IF n = 2 THEN 1 ELSE 0
                  /\ hist[n].kind = IF n = Len(C7Calls) THEN "chunk" ELSE "cell"
            /\ (/\ C7Follows(n - 1) /\ Len(hist) = n - 1
                /\ last.op = C7Calls[n].op /\ last.arg = C7Calls[n].arg)
                  => last.out = "ok"

\* The whole scenario has run.
C7_Witness ==
    /\ C7Offsets
    /\ C7Follows(Len(C7Calls))
    /\ Len(hist) = Len(C7Calls)
    /\ hist[Len(hist)].key = 100 + CHUNK

\* C8: for a key K that alloc returned, the second of two dealloc(K) calls
\* in a row panics with "key was not allocated by the allocator".
\* (Violated: with chunks_off - cells_off >= 2^32 the key of chunk index
\* u32::MAX panics in the 64-bit downcast instead, on both calls.)
C8_DoubleFree ==
    (/\ last.op = "dealloc" /\ prev.op = "dealloc"
     /\ last.arg = prev.arg /\ last.arg \in Returned(hist))
        => last.out = "DoubleFreeOrUnknownKey"

\* C9: dealloc of a key below cells_off panics on the range assertion, and
\* neither stash is touched.
C9_KeyOutOfRange ==
    [][(last'.op = "dealloc" /\ last'.arg < cells_off)
          => /\ last'.out = "KeyOutOfRange"
             /\ cells' = cells /\ chunks' = chunks /\ hist' = hist]_vars

\* dealloc(cells_off - 1) panicked with cells and a chunk allocated.
C9_Witness ==
    /\ last.op = "dealloc" /\ last.arg = cells_off - 1
    /\ last.out = "KeyOutOfRange"
    /\ prev.op = "dealloc" /\ prev.arg = 0 /\ prev.out = "KeyOutOfRange"
    /\ StashOccupied(cells) # {} /\ StashOccupied(chunks) # {}

\* C10: alloc(0) fails with ZeroSizeRequest and allocates nothing.
\* (Violated: a release build allocates a cell, as alloc(1) does.)
C10_ZeroSize ==
    (last.op = "alloc" /\ last.arg = 0)
        => last.out = "ZeroSizeRequest" /\ last.kind = "none"

\* C11: dealloc of a key >= cells_off that is not live (never returned, in
\* the middle of a chunk, or already freed) panics, whether in the stash or
\* in a downcast, and so frees nothing.  (Violated: the shift drops the low
\* 32 bits, so a key inside a chunk returns and frees a live chunk.)
C11_UnknownKey ==
    (/\ last.op = "dealloc"
     /\ last.arg >= cells_off
     /\ last.arg \notin Live(Before))
        => last.out \in {"DoubleFreeOrUnknownKey", "IndexOverflow"}

\* C12: every key returned for a cell is in [cells_off, chunks_off) and
\* every key returned for a chunk is >= chunks_off, so that dealloc sends it
\* to the stash it came from.  (Violated: cell index u32::MAX gets the key
\* chunks_off when chunks_off = cells_off + u32::MAX.)
C12_Classification ==
    \A n \in DOMAIN hist :
        hist[n].op = "alloc"
            => IF hist[n].kind = "cell"
               THEN cells_off <= hist[n].key /\ hist[n].key < chunks_off
               ELSE hist[n].key >= chunks_off

\* C13: cells_off, reserved first from a bootstrap allocator that hands out
\* increasing spans, is below chunks_off after construction and in every
\* state alloc and dealloc lead to.
C13_OffsetsOrdered == cells_off < chunks_off

\* Cells and chunks were allocated and freed, and a call panicked.
C13_Witness ==
    /\ cells_off < chunks_off
    /\ cells.free # <<>> /\ chunks.free # <<>>
    /\ last.out # "ok"

\* Request sizes of chunks that alloc is compared on.
BigSizes == {2, 3, 4}

LiveAllocs(h) ==
    {n \in DOMAIN h :
        /\ h[n].op = "alloc"
        /\ \A m \in DOMAIN h :
              m > n => ~(h[m].op = "dealloc" /\ h[m].arg = h[n].key)}

\* C15: the spans [K, K + 2^32) of two distinct live chunk keys are
\* disjoint, and no live cell key lies inside the span of a live chunk.
\* (Violated: the key of cell index u32::MAX is the key of chunk index 0
\* when chunks_off = cells_off + u32::MAX.)
C15_NoOverlap ==
    \A n, m \in LiveAllocs(hist) :
        hist[n].kind = "chunk"
            => /\ (hist[m].kind = "chunk" /\ hist[m].key # hist[n].key)
                    => \/ hist[m].key + CHUNK <= hist[n].key
                       \/ hist[n].key + CHUNK <= hist[m].key
               /\ hist[m].kind = "cell"
                    => \/ hist[m].key < hist[n].key
                       \/ hist[m].key >= hist[n].key + CHUNK

\* C16: dealloc of a key in [cells_off, chunks_off) whose distance from
\* cells_off does not fit 32 bits panics in the downcast and frees no cell.
C16_CellIndexOverflow ==
    [][(/\ last'.op = "dealloc"
        /\ cells_off <= last'.arg /\ last'.arg < chunks_off
        /\ last'.arg - cells_off > U32_MAX)
          => /\ last'.out = "IndexOverflow"
             /\ cells' = cells /\ chunks' = chunks /\ hist' = hist]_vars

\* dealloc(cells_off + 2^32) panicked in the downcast while cell index 0,
\* which a truncating cast would yield, was occupied.
C16_Witness ==
    /\ last.op = "dealloc" /\ last.arg = cells_off + CHUNK
    /\ last.arg < chunks_off
    /\ last.out = "IndexOverflow"
    /\ 0 \in StashOccupied(cells)

\* C17: a dealloc call that panics (key below cells_off, a downcast that
\* does not fit, an index that is not occupied) leaves both stashes and
\* both offsets as they were before the call.
C17_PanicChangesNothing ==
    [][(last'.op = "dealloc" /\ last'.out # "ok")
          => /\ cells' = cells /\ chunks' = chunks
             /\ cells_off' = cells_off /\ chunks_off' = chunks_off]_vars

\* All three panics of dealloc were seen with cells and chunks allocated
\* and freed: the last two calls and, for the third, a second look at it.
C17_Witness ==
    /\ last.op = "dealloc" /\ last.out = "IndexOverflow"
    /\ prev.op = "dealloc" /\ prev.out = "DoubleFreeOrUnknownKey"
    /\ dealloc(cells_off - 1).out = "KeyOutOfRange"
    /\ StashOccupied(cells) # {} /\ cells.free # <<>>
    /\ StashOccupied(chunks) # {}

\* C18: the offsets never change; a cell allocation and a dealloc that
\* returns for a key held as a cell leave the chunks stash unchanged; a
\* chunk allocation and a dealloc that returns for a key held as a chunk
\* leave the cells stash unchanged.  (Violated: the cell key that equals
\* chunks_off is freed from the chunks stash.)
C18_Frame ==
    [][/\ cells_off' = cells_off /\ chunks_off' = chunks_off
       /\ (last'.op = "alloc" /\ last'.out = "ok" /\ last'.arg <= 1)
             => chunks' = chunks
       /\ (last'.op = "alloc" /\ last'.out = "ok" /\ last'.arg > 1)
             => cells' = cells
       /\ (last'.op = "dealloc" /\ last'.out = "ok")
             => \A n \in LiveAllocs(hist) :
                   hist[n].key = last'.arg
                       => IF hist[n].kind = "cell"
                          THEN chunks' = chunks
                          ELSE cells' = cells]_vars

\* C19: alloc(size) with size > 1 returns K, dealloc(K) is called next, and
\* the alloc with size > 1 after it returns K again, the cells stash being
\* left alone.  (Violated: dealloc(K) looks for the wrong chunk index.)
C19_ChunkRecycling ==
    /\ (/\ last.op = "dealloc" /\ prev.op = "alloc" /\ prev.out = "ok"
        /\ prev.arg > 1 /\ last.arg = prev.key)
          => last.out = "ok" /\ alloc(prev.arg).key = prev.key
    /\ \A n \in DOMAIN hist :
          (/\ hist[n].op = "alloc" /\ hist[n].arg > 1
           /\ n + 2 \in DOMAIN hist
           /\ hist[n + 1].op = "dealloc" /\ hist[n + 1].arg = hist[n].key
           /\ hist[n + 2].op = "alloc" /\ hist[n + 2].arg > 1)
              => hist[n + 2].key = hist[n].key

====
